---- MODULE Spec2Model ----
(***************************************************************************)
(* A model of m3u-to-m3u8 (src/src/main.ts): the prefix resolver           *)
(* findLargestCommonPrefix, the per-line rewrite of                        *)
(* transformFilesUsingConfiguration, and the run of M3U8Tweaker.           *)
(*                                                                         *)
(* A JavaScript string is a sequence of one-character strings.  The        *)
(* source's array indices are 0-based and are kept 0-based wherever they   *)
(* are stored (excludeIndices, httpStreamPathIndices); element k of a      *)
(* source array is element k+1 of the sequence that models it.             *)
(***************************************************************************)
EXTENDS Integers, Sequences, FiniteSets, TLC

VARIABLES
    pfWords,    \* findLargestCommonPrefix: the argument words
    pfExcl,     \* findLargestCommonPrefix: the argument excludeIndices
    pfResult,   \* findLargestCommonPrefix: what the call returned
    pfDone,     \* whether the call has returned
    pfCalls,    \* the nested calls the call has made
    rwOld,      \* the rewrite of one playlist: oldRoot
    rwNew,      \* the rewrite of one playlist: replacementRoot
    rwIn,       \* the lines the line reader has delivered so far
    rwOut,      \* the chunks handed to writeStream.write so far
    dirFiles,        \* the playlist files of the folder, in readdir's order
    fileLines,       \* the lines of each playlist file on disk
    xmlPlaylists,    \* parsedXmlFile.playlists.playlist: the $ of each entry, in the XML's order
    options,         \* this.options: oldRoot ("" when not given), purgeXml
    pc,              \* where run() stands
    playlistFiles,   \* run's playlistFiles array
    playlistMetaLookup,  \* the Map of getPlaylistMetaLookup, as its entries in insertion order
    resolvedPaths,   \* getFirstTrackFilePaths: the first entry of each playlist file
    httpStreamPathIndices,
    excludeIndices,  \* what getOldRoot returned
    oldRoot,         \* what getOldRoot returned
    replacementRoot, \* what getReplacementRoot returned
    i,               \* the position counter of the rewrite loop
    sanitizedNames,  \* the output names used so far
    written,         \* one record per playlist the rewrite loop read and wrote
    outFiles,        \* the files of the target folder: name -> chunks written
    exitCode,        \* -1 while running, 1 after utils.throw, 0 after the success message
    message,         \* the error utils.throw was given, "" while there is none
    targetDir,       \* whether the target folder m3u8tweaked exists
    confirmations,   \* the operator's answers to the requests to confirm the configuration
    pathsPromises,   \* getFirstTrackFilePaths: the promise of each getFirstEntry call
    completions,     \* the indices of pathsPromises in the order in which they settled
    fileStreams,     \* the read streams the loop has created: how far each has been read
    writeStreams     \* the write streams the loop has created: what each still holds

pfVars == <<pfWords, pfExcl, pfResult, pfDone, pfCalls>>
rwVars == <<rwOld, rwNew, rwIn, rwOut>>
envVars == <<dirFiles, fileLines, xmlPlaylists, options>>
runVars == <<pc, playlistFiles, playlistMetaLookup, resolvedPaths, httpStreamPathIndices,
             excludeIndices, oldRoot, replacementRoot, i, sanitizedNames, written,
             outFiles, exitCode, message, targetDir, confirmations, pathsPromises,
             completions, fileStreams, writeStreams>>
scanVars == <<pathsPromises, completions>>
streamVars == <<fileStreams, writeStreams>>
vars == <<pfVars, rwVars, envVars, runVars>>

----------------------------------------------------------------------------
(* Bounds *)

MaxWords == 3
MaxWordLen == 2
MaxLines == 2
MaxLineLen == 2
MaxFiles == 3
MaxTitled == 3

----------------------------------------------------------------------------
(* Strings *)

SeqsUpTo(S, n) == UNION {[1..k -> S] : k \in 0..n}

\* String.prototype.startsWith
StartsWith(s, p) == Len(p) <= Len(s) /\ SubSeq(s, 1, Len(p)) = p

\* s[n] for a 0-based n: the character, or undefined past the end
CharAt(s, n) == IF n < Len(s) THEN s[n + 1] ELSE "undefined"

Substring0Short(s, n) == SubSeq(s, 1, n - 1)

\* String.prototype.substring(0, n)
Substring0(s, n) == SubSeq(s, 1, IF n < Len(s) THEN n ELSE Len(s))

\* the elements of a finite set of numbers, in ascending order
RECURSIVE Ascending(_)
Ascending(S) ==
    IF S = {} THEN <<>>
    ELSE LET m == CHOOSE x \in S : \A y \in S : x <= y
         IN <<m>> \o Ascending(S \ {m})

\* the elements of seq at the (1-based) positions P, in order
Pick(seq, P) == [k \in 1..Cardinality(P) |-> seq[Ascending(P)[k]]]

\* the source's (0-based) indices of the positions P, in ascending order
Indices0(P) == [k \in 1..Cardinality(P) |-> Ascending(P)[k] - 1]

Range(seq) == {seq[k] : k \in 1..Len(seq)}

----------------------------------------------------------------------------
(* The three parts of the model - the resolver, the rewrite of one playlist and
   the run - each have their own variables; a specification of one part holds
   the others at rest. *)

\* run() before its first step
RunStart ==
    /\ pc = "getFiles"
    /\ playlistFiles = <<>>
    /\ playlistMetaLookup = <<>>
    /\ resolvedPaths = <<>>
    /\ httpStreamPathIndices = <<>>
    /\ excludeIndices = <<>>
    /\ oldRoot = <<>>
    /\ replacementRoot = <<>>
    /\ i = -1
    /\ sanitizedNames = <<>>
    /\ written = <<>>
    /\ outFiles = <<>>
    /\ exitCode = -1
    /\ message = ""
    /\ targetDir = FALSE
    /\ confirmations = <<>>
    /\ pathsPromises = <<>>
    /\ completions = <<>>
    /\ fileStreams = <<>>
    /\ writeStreams = <<>>

\* no run
RunIdle ==
    /\ dirFiles = <<>>
    /\ fileLines = <<>>
    /\ xmlPlaylists = <<>>
    /\ options = [oldRoot |-> <<>>, purgeXml |-> TRUE, notInteractive |-> FALSE]
    /\ RunStart

\* no playlist being rewritten
RwIdle ==
    /\ rwOld = <<>>
    /\ rwNew = <<>>
    /\ rwIn = <<>>
    /\ rwOut = <<>>

\* no call of the resolver
PfIdle ==
    /\ pfWords = <<>>
    /\ pfExcl = <<>>
    /\ pfResult = [commonPrefix |-> <<>>, excludeIndices |-> <<>>]
    /\ pfDone = TRUE
    /\ pfCalls = 0

----------------------------------------------------------------------------
(* findLargestCommonPrefix, src/src/main.ts 468-496 *)

\* `!words[0] || words.length == 1`: no first word, an empty first word, or one word
IsBorderCase(words) ==
    \/ Len(words) = 0
    \/ Len(words[1]) = 0
    \/ Len(words) = 1

BorderResultFresh(words, excluded) ==
    [commonPrefix |-> IF Len(words) = 0 THEN <<>> ELSE words[1],
     excludeIndices |-> <<>>]

\* `return { commonPrefix: words[0] || "", excludeIndices }`
BorderResult(words, excluded) ==
    [commonPrefix |-> IF Len(words) = 0 THEN <<>> ELSE words[1],
     excludeIndices |-> excluded]

AllAgreeAtFirstTwo(words, n) ==
    /\ n < Len(words[1])
    /\ \A k \in 1..(IF Len(words) < 2 THEN Len(words) ELSE 2) :
           CharAt(words[k], n) = CharAt(words[1], n)

\* `words[0][i] && words.every((w) => w[i] === words[0][i])`, n standing for i
AllAgreeAt(words, n) ==
    /\ n < Len(words[1])
    /\ \A k \in 1..Len(words) : CharAt(words[k], n) = CharAt(words[1], n)

\* `let i = 0; while (...) i++`: the first i at which the loop condition fails
RECURSIVE CommonLengthFrom(_, _)
CommonLengthFrom(words, n) ==
    IF AllAgreeAt(words, n) THEN CommonLengthFrom(words, n + 1) ELSE n

CommonLength(words) == CommonLengthFrom(words, 0)

FilteredWordsBaselineOnly(words) == <<words[1]>>

FilteredWordsInverted(words) ==
    Pick(words, {k \in 1..Len(words) : CharAt(words[k], 0) # CharAt(words[1], 0)})

\* the forEach of the i === 0 branch: the words that keep words[0]'s first character
FilteredWords(words) ==
    Pick(words, {k \in 1..Len(words) : CharAt(words[k], 0) = CharAt(words[1], 0)})

DivergingIndicesOneBased(words) ==
    Ascending({k \in 1..Len(words) : CharAt(words[k], 0) # CharAt(words[1], 0)})

\* the forEach of the i === 0 branch: the indices pushed onto excludeIndices
DivergingIndices(words) ==
    Indices0({k \in 1..Len(words) : CharAt(words[k], 0) # CharAt(words[1], 0)})

RECURSIVE FindLargestCommonPrefix(_, _)
FindLargestCommonPrefix(words, excluded) ==
    IF IsBorderCase(words) THEN BorderResult(words, excluded)
    ELSE LET n == CommonLength(words)
         IN IF n = 0
            THEN FindLargestCommonPrefix(FilteredWords(words),
                                         excluded \o DivergingIndices(words))
            ELSE [commonPrefix |-> Substring0(words[1], n),
                  excludeIndices |-> excluded]

\* the calls of `return findLargestCommonPrefix(filteredWords, excludeIndices)` (489)
\* that one call from outside leads to
RECURSIVE NestedCalls(_)
NestedCalls(words) ==
    IF IsBorderCase(words) THEN 0
    ELSE IF CommonLength(words) = 0
         THEN 1 + NestedCalls(FilteredWords(words))
         ELSE 0

----------------------------------------------------------------------------
(* The rewrite of a line, src/src/main.ts 933-947 *)

\* the playlist header marker of `line.includes("#EXTM3U")`
Marker == <<"#", "E", "X", "T", "M", "3", "U">>

\* the "\n" appended to every line written
NL == <<"\n">>

\* String.prototype.indexOf: the 0-based place of the first occurrence of pat, or -1
IndexOf(str, pat) ==
    LET places == {k \in 0..(Len(str) - Len(pat)) : SubSeq(str, k + 1, k + Len(pat)) = pat}
    IN IF places = {} THEN -1 ELSE CHOOSE k \in places : \A j \in places : k <= j

\* String.prototype.includes
Includes(str, pat) == IndexOf(str, pat) >= 0

\* GetSubstitution of String.prototype.replace for a string pattern (no capture
\* groups): in the replacement text $$ stands for $, $& for the match, $` for what
\* precedes the match and $' for what follows it; any other $ stands for itself.
RECURSIVE GetSubstitution(_, _, _, _)
GetSubstitution(matched, str, position, template) ==
    IF Len(template) = 0 THEN <<>>
    ELSE IF template[1] = "$" /\ Len(template) >= 2 /\ template[2] \in {"$", "&", "`", "'"}
    THEN (CASE template[2] = "$" -> <<"$">>
            [] template[2] = "&" -> matched
            [] template[2] = "`" -> SubSeq(str, 1, position)
            [] template[2] = "'" -> SubSeq(str, position + Len(matched) + 1, Len(str)))
         \o GetSubstitution(matched, str, position, SubSeq(template, 3, Len(template)))
    ELSE <<template[1]>>
         \o GetSubstitution(matched, str, position, SubSeq(template, 2, Len(template)))

\* String.prototype.replace(pat, repl) with a string pat: the first occurrence only
Replace(str, pat, repl) ==
    LET position == IndexOf(str, pat)
    IN IF position < 0 THEN str
       ELSE SubSeq(str, 1, position)
            \o GetSubstitution(pat, str, position, repl)
            \o SubSeq(str, position + Len(pat) + 1, Len(str))

\* String.prototype.replaceAll("\\", "/")
SlashesForBackslashes(str) == [k \in 1..Len(str) |-> IF str[k] = "\\" THEN "/" ELSE str[k]]

IsHeaderLineExact(line) == line = Marker

\* `line.includes("#EXTM3U")`
IsHeaderLine(line) == Includes(line, Marker)

\* the body of `for await (const line of lineReader)`: the chunks written for one line
WriteForLine(line, root, newRoot) ==
    IF IsHeaderLine(line) THEN <<>>
    ELSE IF ~StartsWith(line, root) THEN <<line \o NL>>
    ELSE <<SlashesForBackslashes(Replace(line, root, newRoot)) \o NL>>

\* the whole `for await` loop over the lines of one playlist
RECURSIVE TransformLines(_, _, _)
TransformLines(lines, root, newRoot) ==
    IF Len(lines) = 0 THEN <<>>
    ELSE WriteForLine(lines[1], root, newRoot)
         \o TransformLines(Tail(lines), root, newRoot)

----------------------------------------------------------------------------
(* The rewrite of one playlist on its own: lines arrive one at a time *)

LineChars == {"a", "b", "\\"}
LineSet ==
    SeqsUpTo(LineChars, MaxLineLen)
    \cup {p \o Marker \o q : p \in SeqsUpTo(LineChars, 1), q \in SeqsUpTo(LineChars, 1)}
OldRoots == {<<"a">>, <<"a", "\\">>, <<"b">>, <<"#">>}
NewRoots == {<<>>, <<"N", "\\">>, <<"$", "&">>, <<"$", "$">>, <<"$", "'">>, <<"$", "1">>}

InitRewrite ==
    /\ rwOld \in OldRoots
    /\ rwNew \in NewRoots
    /\ rwIn = <<>>
    /\ rwOut = <<>>
    /\ PfIdle
    /\ RunIdle

ReadLine ==
    /\ Len(rwIn) < MaxLines
    /\ \E line \in LineSet :
           /\ rwIn' = Append(rwIn, line)
           /\ rwOut' = rwOut \o WriteForLine(line, rwOld, rwNew)
    /\ UNCHANGED <<rwOld, rwNew, pfVars, envVars, runVars>>

NextRewrite == ReadLine

SpecRewrite == InitRewrite /\ [][NextRewrite]_vars

----------------------------------------------------------------------------
(* getFirstEntry, src/src/main.ts 441-466 *)

\* firstEntryRegex = /\n([^#].*)$/m on a file given as its lines, each ended by
\* "\n": the match starts at the newline that ends line k; [^#] takes the first
\* character of line k+1, or, when line k+1 is empty, the newline that ends it,
\* and .* then takes the rest of the line that follows. 0 when line k has no match.
EntryAfter(lines, k) ==
    IF k + 1 > Len(lines) THEN <<>>
    ELSE IF Len(lines[k + 1]) = 0
         THEN NL \o (IF k + 2 <= Len(lines) THEN lines[k + 2] ELSE <<>>)
    ELSE IF lines[k + 1][1] = "#" THEN <<>>
    ELSE lines[k + 1]

\* the first match in the file, or "" when there is none
GetFirstEntry(lines) ==
    LET hits == {k \in 1..Len(lines) : EntryAfter(lines, k) # <<>>}
    IN IF hits = {} THEN <<>>
       ELSE EntryAfter(lines, CHOOSE k \in hits : \A j \in hits : k <= j)

----------------------------------------------------------------------------
(* The run of M3U8Tweaker, src/src/main.ts 529-957 *)

Http == <<"h", "t", "t", "p", ":", "/", "/">>
Https == <<"h", "t", "t", "p", "s", ":", "/", "/">>

\* `filePath.startsWith("http://") || filePath.startsWith("https://")`
IsHttpStream(filePath) == StartsWith(filePath, Http) \/ StartsWith(filePath, Https)

\* Array.prototype.includes on an array of indices
IncludesIndex(indices, n) == \E k \in 1..Len(indices) : indices[k] = n

ThrowLogsOnly(error) ==
    /\ message' = error
    /\ UNCHANGED <<pc, exitCode>>

\* utils.throw (part_001 12-19): the error is reported and process.exit(1) ends the run
Throw(error) ==
    /\ pc' = "exited"
    /\ exitCode' = 1
    /\ message' = error

\* getFiles (587-622): the playlist files of the folder, or a throw when there are none
GetFiles ==
    /\ pc = "getFiles"
    /\ playlistFiles' = dirFiles
    /\ IF Len(dirFiles) = 0
       THEN Throw("No playlist files found.")
       ELSE pc' = "getPlaylistMetaLookup" /\ UNCHANGED <<exitCode, message>>
    /\ UNCHANGED <<pfVars, rwVars, envVars, scanVars, streamVars, playlistMetaLookup, resolvedPaths,
                   httpStreamPathIndices, excludeIndices, oldRoot, replacementRoot, i,
                   sanitizedNames, written, outFiles, targetDir, confirmations>>

\* Map.prototype.set: a new key goes to the end, a known key keeps its place
MapSet(entries, meta) ==
    IF \E k \in 1..Len(entries) : entries[k].filename = meta.filename
    THEN [k \in 1..Len(entries) |->
              IF entries[k].filename = meta.filename THEN meta ELSE entries[k]]
    ELSE Append(entries, meta)

\* the reduce of getPlaylistMetaLookup (647-655)
RECURSIVE MetaLookupOf(_, _)
MetaLookupOf(entries, playlists) ==
    IF Len(playlists) = 0 THEN entries
    ELSE MetaLookupOf(MapSet(entries, playlists[1]), Tail(playlists))

GetPlaylistMetaLookup ==
    /\ pc = "getPlaylistMetaLookup"
    /\ playlistMetaLookup' = MetaLookupOf(<<>>, xmlPlaylists)
    /\ pc' = "purgeAndReport"
    /\ UNCHANGED <<pfVars, rwVars, envVars, scanVars, streamVars, playlistFiles, resolvedPaths,
                   httpStreamPathIndices, excludeIndices, oldRoot, replacementRoot, i,
                   sanitizedNames, written, outFiles, exitCode, message, targetDir, confirmations>>

\* `playlistMetaLookup.get(val) !== undefined`
InMetaLookup(entries, filename) == \E k \in 1..Len(entries) : entries[k].filename = filename

\* utils.filterInPlace (part_001 21-36) with purgeAndReport's condition
FilterInPlace(array, entries) == SelectSeq(array, LAMBDA val : InMetaLookup(entries, val))

\* purgeAndReport (661-689)
PurgeAndReport ==
    /\ pc = "purgeAndReport"
    /\ playlistFiles' = IF options.purgeXml
                        THEN FilterInPlace(playlistFiles, playlistMetaLookup)
                        ELSE playlistFiles
    /\ pc' = "getOldRoot"
    /\ UNCHANGED <<pfVars, rwVars, envVars, scanVars, streamVars, playlistMetaLookup, resolvedPaths,
                   httpStreamPathIndices, excludeIndices, oldRoot, replacementRoot, i,
                   sanitizedNames, written, outFiles, exitCode, message, targetDir, confirmations>>

\* getFirstTrackFilePaths (711-738): resolvedPaths of Promise.all
ResolvedPathsOf(files) == [k \in 1..Len(files) |-> GetFirstEntry(fileLines[files[k]])]

HttpStreamPathIndicesOf(paths) == Indices0({k \in 1..Len(paths) : IsHttpStream(paths[k])})

\* the loop of determineExcludedFiles (748-757)
ExcludedByRoot(paths, root) ==
    Indices0({k \in 1..Len(paths) : StartsWith(paths[k], root) /\ ~IsHttpStream(paths[k])})

\* `excludeIndices.length + httpStreamPathIndices.length === resolvedPaths.length` (759-762)
NothingLeft(excl, http, paths) == Len(excl) + Len(http) = Len(paths)

\* getOldRoot (691-705) with this.options.oldRoot given: determineExcludedFiles (743-769)
DetermineExcludedFiles ==
    /\ pc = "getOldRoot"
    /\ options.oldRoot # <<>>
    /\ LET paths == ResolvedPathsOf(playlistFiles)
           http == HttpStreamPathIndicesOf(paths)
           excl == ExcludedByRoot(paths, options.oldRoot)
       IN /\ resolvedPaths' = paths
          /\ httpStreamPathIndices' = http
          /\ IF NothingLeft(excl, http, paths)
             THEN Throw("Common prefix is not available") /\ UNCHANGED <<excludeIndices, oldRoot>>
             ELSE /\ excludeIndices' = excl
                  /\ oldRoot' = options.oldRoot
                  /\ pc' = "getReplacementRoot"
                  /\ UNCHANGED <<exitCode, message>>
    /\ UNCHANGED <<pfVars, rwVars, envVars, scanVars, streamVars, playlistFiles, playlistMetaLookup,
                   replacementRoot, i, sanitizedNames, written, outFiles, targetDir, confirmations>>

\* `resolvedPaths.filter((val, index) => !httpStreamPathIndices.includes(index))`
NonStreamPaths(paths) ==
    Pick(paths, {k \in 1..Len(paths) : ~IncludesIndex(HttpStreamPathIndicesOf(paths), k - 1)})

PrefixMissingNever(prefix) == FALSE

\* `commonPrefix === ""` (793)
PrefixMissing(prefix) == prefix = <<>>

\* getOldRoot without this.options.oldRoot: determineCommonRootAndExcludedFiles
\* (775-823); the table of excluded files it prints is not part of the state
DetermineCommonRootAndExcludedFiles ==
    /\ pc = "getOldRoot"
    /\ options.oldRoot = <<>>
    /\ LET paths == ResolvedPathsOf(playlistFiles)
           found == FindLargestCommonPrefix(NonStreamPaths(paths), <<>>)
       IN /\ resolvedPaths' = paths
          /\ httpStreamPathIndices' = HttpStreamPathIndicesOf(paths)
          /\ IF PrefixMissing(found.commonPrefix)
             THEN Throw("Could not find a common prefix!")
                  /\ UNCHANGED <<excludeIndices, oldRoot>>
             ELSE /\ excludeIndices' = found.excludeIndices
                  /\ oldRoot' = found.commonPrefix
                  /\ pc' = "getReplacementRoot"
                  /\ UNCHANGED <<exitCode, message>>
    /\ UNCHANGED <<pfVars, rwVars, envVars, scanVars, streamVars, playlistFiles, playlistMetaLookup,
                   replacementRoot, i, sanitizedNames, written, outFiles, targetDir, confirmations>>

\* the replacement roots an operator gives (--newRoot, or the prompt's answer)
ReplacementRoots == {<<>>, <<"N", "\\">>}

\* getReplacementRoot (825-836)
GetReplacementRoot ==
    /\ pc = "getReplacementRoot"
    /\ \E root \in ReplacementRoots : replacementRoot' = root
    /\ pc' = "checkConfig"
    /\ UNCHANGED <<pfVars, rwVars, envVars, scanVars, streamVars, playlistFiles, playlistMetaLookup,
                   resolvedPaths, httpStreamPathIndices, excludeIndices, oldRoot, i,
                   sanitizedNames, written, outFiles, exitCode, message, targetDir, confirmations>>

DeclinedNever(proceed) == FALSE

\* `if (!proceed)` (864)
Declined(proceed) == ~proceed

\* checkConfig (841-868): unless --notInteractive is set the operator is asked once
\* to confirm the configuration, and an answer of no ends the run
CheckConfig ==
    /\ pc = "checkConfig"
    /\ IF ~options.notInteractive
       THEN \E proceed \in BOOLEAN :
                /\ confirmations' = Append(confirmations, proceed)
                /\ IF Declined(proceed)
                   THEN Throw("Aborted -- incorrect configuration.")
                   ELSE pc' = "transform" /\ UNCHANGED <<exitCode, message>>
       ELSE /\ pc' = "transform"
            /\ UNCHANGED <<exitCode, message, confirmations>>
    /\ UNCHANGED <<pfVars, rwVars, envVars, scanVars, streamVars, playlistFiles, playlistMetaLookup,
                   resolvedPaths, httpStreamPathIndices, excludeIndices, oldRoot,
                   replacementRoot, i, sanitizedNames, written, outFiles, targetDir>>

\* the characters sanitize-filename strips
IllegalChars == {"/", "?", "<", ">", "\\", ":", "*", "|", "\""}

\* sanitizeFileName(file.title) (909)
SanitizeFileName(title) == SelectSeq(title, LAMBDA c : c \notin IllegalChars)

\* `if (sanitizedNames.includes(sanitizedName)) sanitizedName += " 2"` (910-914)
NumberedName(names, name) ==
    IF \E k \in 1..Len(names) : names[k] = name THEN name \o <<" ", "2">> ELSE name

\* the beginning of transformFilesUsingConfiguration (875-897)
TransformStart ==
    /\ pc = "transform"
    /\ targetDir' = TRUE
    /\ i' = -1
    /\ sanitizedNames' = <<>>
    /\ pc' = "loop"
    /\ UNCHANGED <<pfVars, rwVars, envVars, scanVars, streamVars, playlistFiles, playlistMetaLookup,
                   resolvedPaths, httpStreamPathIndices, excludeIndices, oldRoot,
                   replacementRoot, written, outFiles, exitCode, message,
                   confirmations>>

\* one round of `for (const file of playlistMetaLookup.values())` (898-951), and
\* what follows the loop. A playlist the XML names and the folder lacks fails to
\* open: the read stream's error handler throws, and the target file has or has
\* not been created (emptied) by then.
LoopStep ==
    /\ pc = "loop"
    /\ IF i + 1 >= Len(playlistMetaLookup)
       THEN /\ pc' = "done"
            /\ exitCode' = 0
            /\ UNCHANGED <<i, sanitizedNames, written, outFiles, message>>
       ELSE LET file == playlistMetaLookup[i + 2]
                name == NumberedName(sanitizedNames, SanitizeFileName(file.title))
            IN /\ i' = i + 1
               /\ IF IncludesIndex(excludeIndices, i + 1)
                  THEN UNCHANGED <<pc, exitCode, message, sanitizedNames, written, outFiles>>
                  ELSE /\ sanitizedNames' = Append(sanitizedNames, name)
                       /\ IF file.filename \in DOMAIN fileLines
                          THEN LET chunks == TransformLines(fileLines[file.filename],
                                                            oldRoot, replacementRoot)
                               IN /\ written' = Append(written,
                                        [filename |-> file.filename, target |-> name,
                                         chunks |-> chunks])
                                  /\ outFiles' = [n \in DOMAIN outFiles \cup {name} |->
                                                      IF n = name THEN chunks ELSE outFiles[n]]
                                  /\ UNCHANGED <<pc, exitCode, message>>
                          ELSE /\ Throw("error in readstream")
                               /\ \E created \in BOOLEAN :
                                      outFiles' = IF created
                                                  THEN [n \in DOMAIN outFiles \cup {name} |->
                                                            IF n = name THEN <<>> ELSE outFiles[n]]
                                                  ELSE outFiles
                               /\ UNCHANGED written
    /\ UNCHANGED <<pfVars, rwVars, envVars, scanVars, streamVars, playlistFiles, playlistMetaLookup,
                   resolvedPaths, httpStreamPathIndices, excludeIndices, oldRoot,
                   replacementRoot, targetDir, confirmations>>

Next ==
    \/ GetFiles
    \/ GetPlaylistMetaLookup
    \/ PurgeAndReport
    \/ DetermineExcludedFiles
    \/ DetermineCommonRootAndExcludedFiles
    \/ GetReplacementRoot
    \/ CheckConfig
    \/ TransformStart
    \/ LoopStep

\* The folder holds playlists.xml, which parses and names at least one playlist.
\* Playlist files: file n stands for "n.m3u8". The folder lists them in the order
\* 1, 2, ...; the XML names them in any order, so every relative order of the two
\* occurs. A title is a string; in the runs below each file has a title of its own.
TitleOf(n) == <<"T", ToString(n)>>

LocalA == <<"h", "i", "\\", "a">>
LocalB == <<"h", "o", "\\", "b">>
LocalC == <<"D", ":", "\\", "c">>
StreamS == <<"h", "t", "t", "p", ":", "/", "/", "s">>

\* the playlists a file may hold: a header line, comment lines, entries
Contents ==
    { <<Marker, <<"#", "i">>, LocalA>>,
      <<Marker, LocalB, StreamS>>,
      <<Marker, LocalC>>,
      <<Marker, StreamS>> }

\* --purgeXml is a flag whose default is true (src/src/index.ts 25): the command
\* line has no way to turn it off
PurgeXmlDefault == TRUE

\* --oldRoot: not given, or one of these
GivenOldRoots == {<<"h", "i">>, <<"h">>}

InjectiveSeqs(S) ==
    {q \in SeqsUpTo(S, Cardinality(S)) : \A j, k \in 1..Len(q) : j # k => q[j] # q[k]}

Init ==
    /\ \E n \in 0..MaxFiles :
           /\ dirFiles = [k \in 1..n |-> k]
           /\ fileLines \in [1..n -> Contents]
    /\ \E order \in InjectiveSeqs(1..MaxFiles) \ {<<>>} :
           xmlPlaylists = [k \in 1..Len(order) |->
                               [filename |-> order[k], title |-> TitleOf(order[k])]]
    /\ options \in [oldRoot : {<<>>} \cup GivenOldRoots, purgeXml : {PurgeXmlDefault},
                    notInteractive : BOOLEAN]
    /\ RunStart
    /\ PfIdle
    /\ RwIdle

Spec == Init /\ [][Next]_vars

\* Runs that differ in the titles: the folder and the XML list the same playlists
\* in the same order, and each title is one of these.
Titles == {<<"M">>, <<"M", "?">>, <<"M", " ", "2">>, <<"K">>}

InitNames ==
    /\ \E n \in 1..MaxTitled :
           /\ dirFiles = [k \in 1..n |-> k]
           /\ fileLines = [k \in 1..n |-> <<Marker, LocalA>>]
           /\ \E titles \in [1..n -> Titles] :
                  xmlPlaylists = [k \in 1..n |-> [filename |-> k, title |-> titles[k]]]
    /\ options \in [oldRoot : {<<>>, <<"D", ":">>}, purgeXml : {PurgeXmlDefault},
                    notInteractive : {TRUE}]
    /\ RunStart
    /\ PfIdle
    /\ RwIdle

SpecNames == InitNames /\ [][Next]_vars

----------------------------------------------------------------------------
(* The resolver on its own: every candidate sequence within the bounds *)

WordChars == {"a", "b"}
Words == SeqsUpTo(WordChars, MaxWordLen)
\* the excludeIndices argument: left out (the default, a fresh []) or an array that holds an index
ExclArgs == {<<>>, <<7>>}

InitPrefix ==
    /\ pfWords \in SeqsUpTo(Words, MaxWords)
    /\ pfExcl \in ExclArgs
    /\ pfResult = [commonPrefix |-> <<>>, excludeIndices |-> <<>>]
    /\ pfDone = FALSE
    /\ pfCalls = 0
    /\ RwIdle
    /\ RunIdle

Resolve ==
    /\ ~pfDone
    /\ pfResult' = FindLargestCommonPrefix(pfWords, pfExcl)
    /\ pfDone' = TRUE
    /\ pfCalls' = NestedCalls(pfWords)
    /\ UNCHANGED <<pfWords, pfExcl, rwVars, envVars, runVars>>

NextPrefix == Resolve

SpecPrefix == InitPrefix /\ [][NextPrefix]_vars

----------------------------------------------------------------------------
(* The scans of getFirstTrackFilePaths, src/src/main.ts 711-738, one step per
   promise: the calls of getFirstEntry are all made before any of them is
   awaited, each settles when its pipeline has ended, in any order, and
   Promise.all is what the method awaits. *)

\* how the pipeline of a scan ends: the stream came to its end (or was destroyed
\* on the first match), or reading failed
ScanOutcomes == {"end", "error"}

\* `try { await pipeline(...) } catch {}; return firstEntry` (459-465): the promise
\* of getFirstEntry is fulfilled however the pipeline ended
SettleAs(outcome) == "fulfilled"

\* what firstEntry holds when the pipeline has ended: nothing was matched in a
\* file that could not be read
FirstEntryAt(lines, outcome) == IF outcome = "error" THEN <<>> ELSE GetFirstEntry(lines)

AllResultsAsSettled(promises, settled) ==
    [k \in 1..Len(promises) |-> promises[settled[k]].value]

\* the array Promise.all fulfils with: the values in the order of the promises
AllResults(promises, settled) == [k \in 1..Len(promises) |-> promises[k].value]

\* the `for` of 715-717: every scan is started
StartScans ==
    /\ pc = "getFirstTrackFilePaths"
    /\ pathsPromises' = [k \in 1..Len(playlistFiles) |->
                            [file |-> playlistFiles[k], state |-> "pending",
                             outcome |-> "none", value |-> <<>>]]
    /\ pc' = "awaitAll"
    /\ UNCHANGED <<pfVars, rwVars, envVars, streamVars, completions, playlistFiles, playlistMetaLookup,
                   resolvedPaths, httpStreamPathIndices, excludeIndices, oldRoot,
                   replacementRoot, i, sanitizedNames, written, outFiles, exitCode,
                   message, targetDir, confirmations>>

\* one call of getFirstEntry (441-466) returns
ScanSettles ==
    /\ \E k \in 1..Len(pathsPromises) :
           /\ pathsPromises[k].state = "pending"
           /\ \E outcome \in ScanOutcomes :
                  pathsPromises' =
                      [pathsPromises EXCEPT
                           ![k] = [file |-> pathsPromises[k].file,
                                   state |-> SettleAs(outcome),
                                   outcome |-> outcome,
                                   value |-> FirstEntryAt(fileLines[pathsPromises[k].file],
                                                          outcome)]]
           /\ completions' = Append(completions, k)
    /\ UNCHANGED <<pfVars, rwVars, envVars, streamVars, pc, playlistFiles, playlistMetaLookup,
                   resolvedPaths, httpStreamPathIndices, excludeIndices, oldRoot,
                   replacementRoot, i, sanitizedNames, written, outFiles, exitCode,
                   message, targetDir, confirmations>>

\* `await Promise.all(pathsPromises)` and the reduce (718-728): Promise.all is
\* fulfilled once every promise is, and rejected as soon as one is rejected; a
\* rejection is not caught anywhere in run, and ends the process
AwaitAll ==
    /\ pc = "awaitAll"
    /\ IF \E k \in 1..Len(pathsPromises) : pathsPromises[k].state = "rejected"
       THEN /\ Throw("unhandled rejection")
            /\ UNCHANGED <<resolvedPaths, httpStreamPathIndices>>
       ELSE /\ \A k \in 1..Len(pathsPromises) : pathsPromises[k].state = "fulfilled"
            /\ resolvedPaths' = AllResults(pathsPromises, completions)
            /\ httpStreamPathIndices' =
                   HttpStreamPathIndicesOf(AllResults(pathsPromises, completions))
            /\ pc' = "scanned"
            /\ UNCHANGED <<exitCode, message>>
    /\ UNCHANGED <<pfVars, rwVars, envVars, scanVars, streamVars, playlistFiles, playlistMetaLookup,
                   excludeIndices, oldRoot, replacementRoot, i, sanitizedNames, written,
                   outFiles, targetDir, confirmations>>

NextScans ==
    \/ StartScans
    \/ ScanSettles
    \/ AwaitAll

\* getFirstTrackFilePaths is called with the playlist files left after the purge
InitScans ==
    /\ \E n \in 1..MaxFiles :
           /\ dirFiles = [k \in 1..n |-> k]
           /\ fileLines \in [1..n -> Contents]
           /\ playlistFiles = [k \in 1..n |-> k]
           /\ xmlPlaylists = [k \in 1..n |-> [filename |-> k, title |-> TitleOf(k)]]
           /\ playlistMetaLookup = xmlPlaylists
    /\ options = [oldRoot |-> <<>>, purgeXml |-> PurgeXmlDefault, notInteractive |-> TRUE]
    /\ pc = "getFirstTrackFilePaths"
    /\ resolvedPaths = <<>>
    /\ httpStreamPathIndices = <<>>
    /\ excludeIndices = <<>>
    /\ oldRoot = <<>>
    /\ replacementRoot = <<>>
    /\ i = -1
    /\ sanitizedNames = <<>>
    /\ written = <<>>
    /\ outFiles = <<>>
    /\ exitCode = -1
    /\ message = ""
    /\ targetDir = FALSE
    /\ confirmations = <<>>
    /\ pathsPromises = <<>>
    /\ completions = <<>>
    /\ fileStreams = <<>>
    /\ writeStreams = <<>>
    /\ PfIdle
    /\ RwIdle

SpecScans == InitScans /\ [][NextScans]_vars

----------------------------------------------------------------------------
(* The rewrite loop of transformFilesUsingConfiguration, src/src/main.ts 896-957,
   one step per stream event. writeStream.write hands a chunk to the stream and
   returns; the stream writes its chunks to the file one after the other, while
   the loop goes on. utils.throw ends the process at once, with process.exit(1):
   what a write stream still holds is then never written. The loop never ends a
   write stream; the descriptors are closed as the process ends. *)

\* the playlists the rewrite loop is given
MaxStreamed == 2

\* the file a write stream writes to, with one more chunk or as createWriteStream
\* leaves it (flags "w": created or emptied)
FileWith(files, name, chunks) ==
    [n \in DOMAIN files \cup {name} |-> IF n = name THEN chunks ELSE files[n]]

\* the source has no further line: the `for await` of 933 is left
AtEnd(pos, lines) == pos >= Len(lines)

\* process.exit: every descriptor still open is closed, nothing more is written
ProcessExit(streams) ==
    [k \in 1..Len(streams) |-> [streams[k] EXCEPT !.closed = TRUE]]

\* the head of the `for` (898-931): the loop is left and the success message logged,
\* or the playlist is skipped, or its source and its destination are created
OpenNext ==
    /\ pc = "loop"
    /\ IF i + 1 >= Len(playlistMetaLookup)
       THEN /\ pc' = "done"
            /\ UNCHANGED <<i, sanitizedNames, written, outFiles, streamVars>>
       ELSE LET file == playlistMetaLookup[i + 2]
                name == NumberedName(sanitizedNames, SanitizeFileName(file.title))
            IN /\ i' = i + 1
               /\ IF IncludesIndex(excludeIndices, i + 1)
                  THEN UNCHANGED <<pc, sanitizedNames, written, outFiles, streamVars>>
                  ELSE /\ sanitizedNames' = Append(sanitizedNames, name)
                       /\ fileStreams' = Append(fileStreams,
                              [filename |-> file.filename, pos |-> 0])
                       /\ writeStreams' = Append(writeStreams,
                              [target |-> name, pending |-> <<>>, closed |-> FALSE])
                       /\ written' = Append(written,
                              [filename |-> file.filename, target |-> name, chunks |-> <<>>])
                       /\ outFiles' = FileWith(outFiles, name, <<>>)
                       /\ pc' = "lines"
    /\ UNCHANGED <<pfVars, rwVars, envVars, scanVars, playlistFiles, playlistMetaLookup,
                   resolvedPaths, httpStreamPathIndices, excludeIndices, oldRoot,
                   replacementRoot, exitCode, message, targetDir, confirmations>>

\* one round of `for await (const line of lineReader)` (933-947)
ReadLineOfFile ==
    /\ pc = "lines"
    /\ LET cur == Len(fileStreams)
           lines == fileLines[fileStreams[cur].filename]
           pos == fileStreams[cur].pos
       IN /\ ~AtEnd(pos, lines)
          /\ LET chunks == WriteForLine(lines[pos + 1], oldRoot, replacementRoot)
             IN /\ fileStreams' = [fileStreams EXCEPT ![cur].pos = pos + 1]
                /\ writeStreams' = [writeStreams EXCEPT ![cur].pending = @ \o chunks]
                /\ written' = [written EXCEPT ![cur].chunks = @ \o chunks]
    /\ UNCHANGED <<pfVars, rwVars, envVars, scanVars, pc, playlistFiles, playlistMetaLookup,
                   resolvedPaths, httpStreamPathIndices, excludeIndices, oldRoot,
                   replacementRoot, i, sanitizedNames, outFiles, exitCode, message,
                   targetDir, confirmations>>

\* the source has ended: `progressBar.increment()` (949) and on to the next round
EndOfFile ==
    /\ pc = "lines"
    /\ LET cur == Len(fileStreams)
       IN AtEnd(fileStreams[cur].pos, fileLines[fileStreams[cur].filename])
    /\ pc' = "loop"
    /\ UNCHANGED <<pfVars, rwVars, envVars, scanVars, streamVars, playlistFiles,
                   playlistMetaLookup, resolvedPaths, httpStreamPathIndices,
                   excludeIndices, oldRoot, replacementRoot, i, sanitizedNames, written,
                   outFiles, exitCode, message, targetDir, confirmations>>

\* a write stream writes the first chunk it holds to its file
Flush ==
    /\ pc \in {"lines", "loop", "done"}
    /\ \E k \in 1..Len(writeStreams) :
           /\ writeStreams[k].pending # <<>>
           /\ outFiles' = FileWith(outFiles, writeStreams[k].target,
                                   Append(outFiles[writeStreams[k].target],
                                          Head(writeStreams[k].pending)))
           /\ writeStreams' = [writeStreams EXCEPT ![k].pending = Tail(@)]
    /\ UNCHANGED <<pfVars, rwVars, envVars, scanVars, fileStreams, pc, playlistFiles,
                   playlistMetaLookup, resolvedPaths, httpStreamPathIndices,
                   excludeIndices, oldRoot, replacementRoot, i, sanitizedNames, written,
                   exitCode, message, targetDir, confirmations>>

\* the "error" event of the source being read (929-931)
ReadError ==
    /\ pc = "lines"
    /\ Throw("error in readstream")
    /\ writeStreams' = ProcessExit(writeStreams)
    /\ UNCHANGED <<pfVars, rwVars, envVars, scanVars, fileStreams, playlistFiles,
                   playlistMetaLookup, resolvedPaths, httpStreamPathIndices,
                   excludeIndices, oldRoot, replacementRoot, i, sanitizedNames, written,
                   outFiles, targetDir, confirmations>>

\* the "error" event of a write stream (926-928): of the current one, or of an
\* earlier one that still holds chunks
WriteError ==
    /\ pc \in {"lines", "loop", "done"}
    /\ \E k \in 1..Len(writeStreams) :
           k = Len(writeStreams) \/ writeStreams[k].pending # <<>>
    /\ Throw("error in writestream")
    /\ writeStreams' = ProcessExit(writeStreams)
    /\ UNCHANGED <<pfVars, rwVars, envVars, scanVars, fileStreams, playlistFiles,
                   playlistMetaLookup, resolvedPaths, httpStreamPathIndices,
                   excludeIndices, oldRoot, replacementRoot, i, sanitizedNames, written,
                   outFiles, targetDir, confirmations>>

\* run has returned and no write is left to do: the process ends by itself
ProcessEnds ==
    /\ pc = "done"
    /\ \A k \in 1..Len(writeStreams) : writeStreams[k].pending = <<>>
    /\ pc' = "exited"
    /\ exitCode' = 0
    /\ writeStreams' = ProcessExit(writeStreams)
    /\ UNCHANGED <<pfVars, rwVars, envVars, scanVars, fileStreams, playlistFiles,
                   playlistMetaLookup, resolvedPaths, httpStreamPathIndices,
                   excludeIndices, oldRoot, replacementRoot, i, sanitizedNames, written,
                   outFiles, message, targetDir, confirmations>>

NextStreams ==
    \/ OpenNext
    \/ ReadLineOfFile
    \/ EndOfFile
    \/ Flush
    \/ ReadError
    \/ WriteError
    \/ ProcessEnds

\* the loop is entered with the playlists of the XML, a root and its replacement,
\* and the target folder made
StreamedOldRoots == {<<"h">>, <<"D", ":">>}
StreamedExcludes == {<<>>, <<0>>}

InitStreams ==
    /\ \E n \in 1..MaxStreamed :
           /\ dirFiles = [k \in 1..n |-> k]
           /\ fileLines \in [1..n -> Contents]
           /\ playlistFiles = [k \in 1..n |-> k]
           /\ xmlPlaylists = [k \in 1..n |-> [filename |-> k, title |-> TitleOf(k)]]
           /\ playlistMetaLookup = xmlPlaylists
    /\ options = [oldRoot |-> <<>>, purgeXml |-> PurgeXmlDefault, notInteractive |-> TRUE]
    /\ pc = "loop"
    /\ resolvedPaths = ResolvedPathsOf(playlistFiles)
    /\ httpStreamPathIndices = HttpStreamPathIndicesOf(resolvedPaths)
    /\ excludeIndices \in StreamedExcludes
    /\ oldRoot \in StreamedOldRoots
    /\ replacementRoot = <<"N", "\\">>
    /\ i = -1
    /\ sanitizedNames = <<>>
    /\ written = <<>>
    /\ outFiles = <<>>
    /\ exitCode = -1
    /\ message = ""
    /\ targetDir = TRUE
    /\ confirmations = <<>>
    /\ pathsPromises = <<>>
    /\ completions = <<>>
    /\ fileStreams = <<>>
    /\ writeStreams = <<>>
    /\ PfIdle
    /\ RwIdle

SpecStreams == InitStreams /\ [][NextStreams]_vars

----------------------------------------------------------------------------
(* What the resolver's claims speak of *)

\* p is a prefix of every word
CommonPrefixOf(p, words) == \A k \in 1..Len(words) : StartsWith(words[k], p)

\* the longest string that every word starts with (words non-empty)
LongestCommonPrefix(words) ==
    CHOOSE p \in {SubSeq(words[1], 1, n) : n \in 0..Len(words[1])} :
        /\ CommonPrefixOf(p, words)
        /\ \A n \in 0..Len(words[1]) :
               CommonPrefixOf(SubSeq(words[1], 1, n), words) => n <= Len(p)

\* C1: a non-empty candidate sequence whose elements share a non-empty prefix
\* resolves (excludeIndices left to its default) to exactly the longest common
\* prefix and an empty exclusion set.
C1_SharedPrefix ==
    (/\ pfDone
     /\ pfExcl = <<>>
     /\ Len(pfWords) >= 1
     /\ LongestCommonPrefix(pfWords) # <<>>)
    => /\ pfResult.commonPrefix = LongestCommonPrefix(pfWords)
       /\ pfResult.excludeIndices = <<>>

C1_Witness ==
    /\ pfDone
    /\ pfExcl = <<>>
    /\ Len(pfWords) = 3
    /\ pfWords[1] # pfWords[2]
    /\ pfWords[2] # pfWords[3]
    /\ Len(LongestCommonPrefix(pfWords)) = 1
    /\ Len(pfWords[2]) > Len(pfWords[1])

\* Element d (1-based) is the one element that diverges at character position 0:
\* the other elements, at least one, all start with one and the same character,
\* and element d (the empty string included) does not start with it.
DivergesAlone(words, d) ==
    /\ d \in 1..Len(words)
    /\ Len(words) >= 2
    /\ \A j, k \in (1..Len(words)) \ {d} :
           /\ Len(words[j]) > 0
           /\ CharAt(words[j], 0) = CharAt(words[k], 0)
    /\ \A k \in (1..Len(words)) \ {d} : CharAt(words[d], 0) # CharAt(words[k], 0)

Without(words, d) == Pick(words, (1..Len(words)) \ {d})

\* C2 as stated: whatever the position of the one element that diverges at
\* character position 0, index 0 included, the resolver returns the longest
\* prefix of the remaining elements and excludes exactly that element's index.
C2_AnyPosition ==
    pfDone /\ pfExcl = <<>>
    => \A d \in 1..Len(pfWords) :
           DivergesAlone(pfWords, d)
           => /\ pfResult.commonPrefix = LongestCommonPrefix(Without(pfWords, d))
              /\ pfResult.excludeIndices = <<d - 1>>

\* C2 amended: when the one element that diverges at character position 0 is
\* not the first of the sequence, the resolver returns the longest prefix of the
\* remaining elements and excludes exactly that element's index.
C2_NotTheBaseline ==
    pfDone /\ pfExcl = <<>>
    => \A d \in 2..Len(pfWords) :
           DivergesAlone(pfWords, d)
           => /\ pfResult.commonPrefix = LongestCommonPrefix(Without(pfWords, d))
              /\ pfResult.excludeIndices = <<d - 1>>

C2_Witness ==
    /\ pfDone
    /\ pfExcl = <<>>
    /\ Len(pfWords) = 3
    /\ DivergesAlone(pfWords, 2)
    /\ pfWords[1] # pfWords[3]
    /\ pfResult.excludeIndices = <<1>>
    /\ Len(pfResult.commonPrefix) = 1

\* C3: the base cases. A one-element sequence [s] resolves to s and the empty
\* sequence to the empty string, and either way the exclusion array that was
\* passed in comes back as it was.
C3_BaseCases ==
    pfDone
    => /\ Len(pfWords) = 1
          => pfResult = [commonPrefix |-> pfWords[1], excludeIndices |-> pfExcl]
       /\ Len(pfWords) = 0
          => pfResult = [commonPrefix |-> <<>>, excludeIndices |-> pfExcl]

C3_Witness ==
    /\ pfDone
    /\ Len(pfWords) = 1
    /\ Len(pfWords[1]) = 2
    /\ pfExcl # <<>>
    /\ pfResult.excludeIndices = pfExcl

----------------------------------------------------------------------------
(* What the rewriter's claims speak of *)

\* the lines read so far that are not dropped as header lines
KeptLines(lines) == SelectSeq(lines, LAMBDA line : ~Includes(line, Marker))

\* C4 as stated: for a line that starts with oldRoot (and is not dropped as a
\* header line) the chunk written is replacementRoot, taken literally, followed by
\* the rest of the line after the leading oldRoot, every backslash of that made
\* a forward slash, and a newline - for every oldRoot and every replacementRoot.
C4_LiteralReplacement ==
    /\ Len(rwOut) = Len(KeptLines(rwIn))
    /\ \A k \in 1..Len(rwOut) :
           LET line == KeptLines(rwIn)[k]
           IN StartsWith(line, rwOld)
              => rwOut[k] = SlashesForBackslashes(
                                rwNew \o SubSeq(line, Len(rwOld) + 1, Len(line))) \o NL

\* C5: when no line of the playlist starts with oldRoot, what is written is
\* the lines read, less those that contain the header marker, each once, as it
\* was (with its newline), in the order read; nothing written contains the marker.
C5_PassThrough ==
    (\A k \in 1..Len(rwIn) : ~StartsWith(rwIn[k], rwOld))
    => /\ rwOut = [k \in 1..Len(KeptLines(rwIn)) |-> KeptLines(rwIn)[k] \o NL]
       /\ \A k \in 1..Len(rwOut) : ~Includes(rwOut[k], Marker)

C5_Witness ==
    /\ Len(rwIn) = 2
    /\ rwOld = <<"a", "\\">>
    /\ \A k \in 1..Len(rwIn) : ~StartsWith(rwIn[k], rwOld)
    /\ Includes(rwIn[1], Marker)
    /\ rwIn[1] # Marker
    /\ rwIn[2] = <<"a", "b">>
    /\ rwOut = <<rwIn[2] \o NL>>

----------------------------------------------------------------------------
(* What the run's claims speak of *)

\* getOldRoot has just returned (it did not throw)
OldRootReturned == pc = "getReplacementRoot"

\* C6: in every playlist the rewrite loop has written, each line that is an
\* HTTP(S) stream URL (and is not dropped as a header line) was written as it
\* was, followed by its newline, whatever oldRoot and replacementRoot the run
\* came to the loop with.
C6_StreamLinesUnaltered ==
    \A w \in 1..Len(written) :
        LET kept == KeptLines(fileLines[written[w].filename])
        IN /\ Len(written[w].chunks) = Len(kept)
           /\ \A k \in 1..Len(kept) :
                  IsHttpStream(kept[k]) => written[w].chunks[k] = kept[k] \o NL

\* C7: the output names the rewrite loop has produced in one run are pairwise
\* distinct, so no output file of the run is overwritten by a later playlist.
C7_DistinctOutputNames ==
    \A j, k \in 1..Len(written) : j # k => written[j].target # written[k].target

\* C8: with oldRoot given by the operator, the exclusion array that
\* determineExcludedFiles returns holds exactly the indices of the playlists whose
\* first entry does not start with oldRoot and is not an HTTP(S) stream.
C8_ExcludesTheMismatches ==
    OldRootReturned /\ options.oldRoot # <<>>
    => Range(excludeIndices) =
           {k - 1 : k \in {j \in 1..Len(resolvedPaths) :
                               /\ ~StartsWith(resolvedPaths[j], oldRoot)
                               /\ ~IsHttpStream(resolvedPaths[j])}}

\* C9: with oldRoot detected, every index of the exclusion array, read as an
\* index of the playlist list, denotes a playlist whose first entry is not an
\* HTTP(S) stream and does not start with the detected root.
C9_ExcludesNoStream ==
    OldRootReturned /\ options.oldRoot = <<>>
    => \A e \in 1..Len(excludeIndices) :
           LET k == excludeIndices[e] + 1
           IN /\ k \in 1..Len(resolvedPaths)
              /\ ~IsHttpStream(resolvedPaths[k])
              /\ ~StartsWith(resolvedPaths[k], oldRoot)

\* the playlist files left after the purge whose index is not excluded
Retained == {playlistFiles[k] : k \in {j \in 1..Len(playlistFiles) :
                                           ~IncludesIndex(excludeIndices, j - 1)}}

\* C10: after a successful run the rewrite loop has written one output file
\* for each retained playlist (each playlist file left after the purge whose
\* index is not in the exclusion array), and none for any other playlist.
C10_OneOutputPerRetained ==
    pc = "done"
    => /\ {written[w].filename : w \in 1..Len(written)} = Retained
       /\ \A j, k \in 1..Len(written) : j # k => written[j].filename # written[k].filename

NotAvailable == message = "Common prefix is not available"

\* C11: with oldRoot given by the operator, determineExcludedFiles aborts the run
\* with the prefix-not-available error exactly when no first entry that is not an
\* HTTP(S) stream starts with the given root.
C11_AbortsWhenNoneMatches ==
    options.oldRoot # <<>> /\ (OldRootReturned \/ NotAvailable)
    => (NotAvailable
        <=> ~\E k \in 1..Len(resolvedPaths) :
                /\ ~IsHttpStream(resolvedPaths[k])
                /\ StartsWith(resolvedPaths[k], options.oldRoot))

\* the run has come to the rewrite phase
InRewritePhase == pc \in {"transform", "loop", "done"}

PrefixNotFound == message = "Could not find a common prefix!"

\* getOldRoot has returned or thrown
PastGetOldRoot ==
    \/ OldRootReturned
    \/ InRewritePhase
    \/ pc = "exited" /\ message # "No playlist files found."

\* C12: the rewrite phase is entered with a non-empty oldRoot only; a run whose
\* prefix detection yields the empty string has ended with an error, and it has
\* created no target folder and written no file.
C12_NonEmptyOldRoot ==
    /\ InRewritePhase => oldRoot # <<>>
    /\ PrefixNotFound => /\ pc = "exited" /\ exitCode = 1
                         /\ ~targetDir /\ written = <<>> /\ outFiles = <<>>
    /\ PastGetOldRoot /\ options.oldRoot = <<>>
       /\ FindLargestCommonPrefix(NonStreamPaths(resolvedPaths), <<>>).commonPrefix = <<>>
       => PrefixNotFound

\* a detection that found no prefix although there were first entries
C12_Witness ==
    /\ PrefixNotFound
    /\ \E k \in 1..Len(resolvedPaths) : resolvedPaths[k] # <<>>

\* C18 as stated: the resolver returns the empty prefix only for a sequence that
\* is empty or holds no non-empty candidate.
C18_OnlyWhenExhausted ==
    pfDone /\ pfResult.commonPrefix = <<>>
    => \A k \in 1..Len(pfWords) : pfWords[k] = <<>>

\* C18, amended: the resolver returns the empty prefix exactly when the sequence
\* is empty or its first candidate is the empty string; an empty first candidate
\* is the border case that returns at once, with no candidate narrowed away.
C18_EmptyFirstReturnsEmpty ==
    pfDone
    => /\ pfResult.commonPrefix = <<>> <=> (Len(pfWords) = 0 \/ pfWords[1] = <<>>)
       /\ Len(pfWords) >= 1 /\ pfWords[1] = <<>> => pfResult.excludeIndices = pfExcl

C18_Witness ==
    /\ pfDone
    /\ pfExcl = <<>>
    /\ pfWords = << <<>>, <<"a", "b">>, <<"a">> >>
    /\ pfResult = [commonPrefix |-> <<>>, excludeIndices |-> <<>>]

\* the 1-based places of the words whose index the result does not exclude
NotExcluded ==
    {k \in 1..Len(pfWords) : ~IncludesIndex(pfResult.excludeIndices, k - 1)}

\* C19: for a sequence whose first candidate is not empty (excludeIndices left to
\* its default) the returned prefix is a non-empty prefix of the first candidate,
\* every candidate that is not excluded starts with it, every excluded candidate
\* differs from the first at position 0 and so does not start with it, no longer
\* prefix of the first candidate is shared by the candidates not excluded, and
\* the excluded indices are indices of the input, none of them twice.
C19_ResultOfNonEmptyFirst ==
    (/\ pfDone
     /\ pfExcl = <<>>
     /\ Len(pfWords) >= 1
     /\ pfWords[1] # <<>>)
    => LET p == pfResult.commonPrefix
           ex == pfResult.excludeIndices
       IN /\ p # <<>>
          /\ StartsWith(pfWords[1], p)
          /\ \A k \in NotExcluded : StartsWith(pfWords[k], p)
          /\ \A k \in (1..Len(pfWords)) \ NotExcluded :
                 /\ ~StartsWith(pfWords[k], p)
                 /\ CharAt(pfWords[k], 0) # CharAt(pfWords[1], 0)
          /\ \A n \in (Len(p) + 1)..Len(pfWords[1]) :
                 \E k \in NotExcluded : ~StartsWith(pfWords[k], SubSeq(pfWords[1], 1, n))
          /\ Range(ex) \subseteq 0..(Len(pfWords) - 1)
          /\ \A j, k \in 1..Len(ex) : j # k => ex[j] # ex[k]

C19_Witness ==
    /\ pfDone
    /\ pfExcl = <<>>
    /\ pfWords = << <<"a", "b">>, <<"b">>, <<"a">> >>
    /\ pfResult = [commonPrefix |-> <<"a">>, excludeIndices |-> <<1>>]

\* C20: the resolver returns for every sequence, having made at most one nested
\* call; when it makes one, the words it retains begin with the baseline, are
\* fewer than the input, and do not diverge at position 0 again.
C20_AtMostOneNestedCall ==
    pfDone
    => /\ pfCalls <= 1
       /\ pfCalls >= 1
          => LET retained == FilteredWords(pfWords)
             IN /\ Len(retained) >= 1
                /\ retained[1] = pfWords[1]
                /\ Len(retained) < Len(pfWords)
                /\ IsBorderCase(retained) \/ CommonLength(retained) > 0

C20_Witness ==
    /\ pfDone
    /\ pfCalls = 1
    /\ Len(FilteredWords(pfWords)) = 2

Aborted == message = "Aborted -- incorrect configuration."

\* C17: in interactive mode the operator is asked once to confirm; a run the
\* operator declines has ended with a non-zero exit code, with no target folder
\* created and no file written, and a run that has come to the rewriting was
\* confirmed; with --notInteractive no confirmation is ever requested, and no run
\* ends as declined.
C17_DeclineAborts ==
    /\ Len(confirmations) <= 1
    /\ confirmations = <<FALSE>>
       => /\ pc = "exited" /\ exitCode = 1 /\ Aborted
          /\ ~targetDir /\ written = <<>> /\ outFiles = <<>>
    /\ Aborted => confirmations = <<FALSE>>
    /\ ~options.notInteractive /\ InRewritePhase => confirmations = <<TRUE>>
    /\ options.notInteractive => confirmations = <<>>

\* a run of two playlists or more that the operator has declined
C17_Witness ==
    /\ confirmations = <<FALSE>>
    /\ Aborted
    /\ Len(playlistFiles) >= 2

\* C13: Promise.all is left only when every scan has settled, whatever the order
\* in which they settled and however each ended, and the i-th resolved path is
\* then what the scan of the i-th playlist file returned: the first entry of
\* that file, or "" when the file could not be read.
C13_ScansJoinedInOrder ==
    pc # "awaitAll" /\ pathsPromises # <<>>
    => /\ pc = "scanned"
       /\ Len(completions) = Len(playlistFiles)
       /\ Len(resolvedPaths) = Len(playlistFiles)
       /\ \A k \in 1..Len(playlistFiles) :
              /\ pathsPromises[k].state = "fulfilled"
              /\ pathsPromises[k].file = playlistFiles[k]
              /\ resolvedPaths[k] = pathsPromises[k].value
              /\ resolvedPaths[k] = FirstEntryAt(fileLines[playlistFiles[k]],
                                                 pathsPromises[k].outcome)

\* three scans of files with three first entries, settled last to first
C13_Witness ==
    /\ pc = "scanned"
    /\ completions = <<3, 2, 1>>
    /\ \A k \in 1..3 : pathsPromises[k].outcome = "end"
    /\ \A j, k \in 1..3 : j # k => resolvedPaths[j] # resolvedPaths[k]

\* the lines of the playlist that the k-th read stream of the loop reads
LinesOf(k) == fileLines[fileStreams[k].filename]

\* the k-th destination holds on disk every chunk the loop has written to it
OnDisk(k) == outFiles[writeStreams[k].target] = written[k].chunks

\* C14: while the run goes on a destination is closed only when its source has
\* been read to the end, and however the process has ended (after the last
\* playlist, on a read error, on a write error) every destination is closed and
\* holds on disk all that was written to it.
C14_FlushedAndClosed ==
    \A k \in 1..Len(writeStreams) :
        /\ pc # "exited" /\ writeStreams[k].closed => AtEnd(fileStreams[k].pos, LinesOf(k))
        /\ pc = "exited" => writeStreams[k].closed /\ OnDisk(k)

\* C15: when the source of a playlist has been opened, every playlist opened
\* before it has been read to its last line and its whole output is in its
\* destination file; sanitizedNames has got one name for each playlist opened.
C15_OneAtATime ==
    /\ \A k \in 1..(Len(fileStreams) - 1) :
           /\ AtEnd(fileStreams[k].pos, LinesOf(k))
           /\ written[k].chunks = TransformLines(LinesOf(k), oldRoot, replacementRoot)
           /\ OnDisk(k)
    /\ Len(sanitizedNames) = Len(fileStreams)

StreamError == message \in {"error in readstream", "error in writestream"}

\* C16: the step in which a read or write error event occurs ends the process
\* with exit code 1, and after it nothing changes any more: no playlist is
\* opened, nothing is written to any destination or file, no success message is
\* logged.
C16_StreamErrorIsFatal ==
    [][/\ StreamError' => pc' = "exited" /\ exitCode' = 1
       /\ StreamError => UNCHANGED <<pc, exitCode, i, fileStreams, writeStreams, written,
                                     outFiles, sanitizedNames>>]_vars

\* an error while the first of two playlists is read
C16_Witness ==
    /\ StreamError
    /\ pc = "exited"
    /\ Len(playlistMetaLookup) = 2
    /\ Len(fileStreams) = 1
    /\ fileStreams[1].pos >= 1

====
